---- MODULE Spec2Model ----
(***************************************************************************)
(* A model of app.py, the NBU open-data dashboard: the cached fetcher      *)
(* fetch_data, the tabulizer (pandas.json_normalize as fetch_data uses     *)
(* it), detect_date_column, render_dataset, and the script body with its   *)
(* summary loop and its analytics loop.                                    *)
(*                                                                         *)
(* Strings that the code inspects character by character (column names)   *)
(* are sequences of one-character strings.  A cell value is a pair         *)
(* <<kind, payload>>: "num" (a JSON number), "text" (a JSON string),       *)
(* "null" (JSON null, or a key the row does not have), "obj" (a nested     *)
(* JSON object, before flattening), and, after pandas.to_datetime,         *)
(* "time" (a timestamp parsed from a text) and "time_ns" (a timestamp made *)
(* from a number of nanoseconds).                                          *)
(***************************************************************************)
EXTENDS Integers, Sequences, FiniteSets, TLC

VARIABLES
    \* ---- the table pipeline (fetch_data's tabulizer, render_dataset) ----
    tpc,            \* "payload" -> "table" -> "rendered"
    payload,        \* the decoded JSON document
    df,             \* the DataFrame the caller of render_dataset holds
    out,            \* what render_dataset showed
    \* ---- the script run ----
    now,            \* the clock, in seconds
    cache,          \* st.cache_data's entries of fetch_data, by URL
    pc,             \* "idle", "summary", "analytics", "done", "aborted"
    selected_urls,  \* the run's list of <<name, url>>
    i,              \* the running loop's position in selected_urls
    summary_rows,   \* the rows of the summary table
    errors,         \* the st.error messages of the run (the names they hold)
    keys,           \* the widget keys registered in the run
    ret,            \* the last fetch_data call and what it returned
    lastNet,        \* by URL, the last successful network fetch
    requests,       \* by URL, the network requests issued in the run
    failed,         \* the URLs with a failed network fetch in the run
    log             \* per loop and position, what happened to the dataset

tvars == <<tpc, payload, df, out>>
rvars == <<now, cache, pc, selected_urls, i, summary_rows, errors, keys, ret,
           lastNet, requests, failed, log>>
vars == <<tpc, payload, df, out, now, cache, pc, selected_urls, i,
          summary_rows, errors, keys, ret, lastNet, requests, failed, log>>

----------------------------------------------------------------------------
(* Bounds of the model. *)

\* The longest JSON array a response holds.
MaxRows == 3

\* The last second of the clock.
MaxTime == 900

----------------------------------------------------------------------------
(* Column names and cell values. *)

kStartDate == <<"s","t","a","r","t","_","d","a","t","e">>
kEndDate == <<"e","n","d","_","d","a","t","e">>
kValue == <<"v","a","l","u","e">>
kRate == <<"r","a","t","e">>
kValidDT == <<"V","a","l","i","d","D","T">>
kDtx == <<"d","t","x">>
kA == <<"a">>
kB == <<"b">>
kDt == <<"d","t">>

Null == <<"null", 0>>
Num(n) == <<"num", n>>
Text(s) == <<"text", s>>
Obj(fields) == <<"obj", fields>>

\* The texts pandas.to_datetime parses; every other text is coerced to NaT.
DateTexts == {"2024-01-01", "2024-01-02"}

\* The JSON objects of the model: each a sequence of <<key, value>> in the
\* order of the document (a Python dict keeps it).
rowDated ==
    << <<kStartDate, Text("2024-01-01")>>, <<kEndDate, Text("2024-01-02")>>,
       <<kValue, Num(1)>> >>
rowBadDate == << <<kStartDate, Text("n/a")>>, <<kValue, Num(3)>> >>
rowTextValue == << <<kValue, Text("n/a")>>, <<kRate, Num(3)>> >>
rowNumberDate == << <<kRate, Num(1)>>, <<kValidDT, Num(3)>> >>
rowNullRate == << <<kRate, Null>>, <<kDtx, Text("x")>> >>
rowNested ==
    << <<kA, Obj(<< <<kDt, Text("2024-01-01")>>, <<kB, Num(1)>> >>)>>,
       <<kRate, Num(3)>> >>
rowReordered ==
    << <<kValue, Num(3)>>, <<kEndDate, Text("2024-01-02")>>,
       <<kStartDate, Text("2024-01-01")>> >>
rowEmptyNested == << <<kA, Obj(<<>>)>>, <<kDtx, Text("x")>> >>
rowDateOnly == << <<kEndDate, Text("2024-01-02")>>, <<kDtx, Text("x")>> >>
rowEmpty == << >>

Objects ==
    {rowDated, rowBadDate, rowTextValue, rowNumberDate, rowNullRate, rowNested,
     rowReordered, rowEmptyNested, rowDateOnly, rowEmpty}

RECURSIVE SeqsUpTo(_, _)
SeqsUpTo(S, n) ==
    IF n = 0 THEN {<<>>}
    ELSE LET shorter == SeqsUpTo(S, n - 1)
         IN  shorter \cup {Append(s, x) : s \in {t \in shorter : Len(t) = n - 1}, x \in S}

\* A decoded document: a JSON array of objects, or one JSON object.
Payloads ==
    {<<"array", s>> : s \in SeqsUpTo(Objects, MaxRows)}
        \cup {<<"object", o>> : o \in Objects}

----------------------------------------------------------------------------
(* The tabulizer: pandas.json_normalize(payload), fetch_data line 75.  A    *)
(* dict is a sequence of <<key, value>> with distinct keys.                 *)

Min(x, y) == IF x <= y THEN x ELSE y
Range(s) == {s[k] : k \in 1..Len(s)}

IsObj(v) == v[1] = "obj"
DictKeys(d) == {d[k][1] : k \in 1..Len(d)}
DictGet(d, key) == LET k == CHOOSE k \in 1..Len(d) : d[k][1] = key IN d[k][2]

\* d[key] = v: an existing key keeps its place, a new key goes last.
DictSet(d, key, v) ==
    IF key \in DictKeys(d)
    THEN [k \in 1..Len(d) |-> IF d[k][1] = key THEN <<key, v>> ELSE d[k]]
    ELSE Append(d, <<key, v>>)

\* {**d, **e}
RECURSIVE DictUpdate(_, _)
DictUpdate(d, e) ==
    IF e = <<>> THEN d
    ELSE DictUpdate(DictSet(d, e[1][1], e[1][2]), Tail(e))

\* f"{key_string}{separator}{key}", the leading separator stripped at the top.
NewKey(key_string, key) ==
    IF key_string = <<>> THEN key ELSE key_string \o <<".">> \o key

\* pandas' _normalise_json: nested objects become dotted-path keys, depth
\* first, in the order of the document; a nested object with no fields
\* leaves nothing.
RECURSIVE normalise_json(_, _, _)
normalise_json(data, key_string, normalized_dict) ==
    IF data = <<>> THEN normalized_dict
    ELSE LET key == data[1][1]
             v == data[1][2]
             new_key == NewKey(key_string, key)
             done == IF IsObj(v)
                     THEN normalise_json(v[2], new_key, normalized_dict)
                     ELSE DictSet(normalized_dict, new_key, v)
         IN  normalise_json(Tail(data), key_string, done)

\* A tabulizer that leaves a nested object in its cell, as DataFrame(payload)
\* would.
keep_nested(data) == data

\* pandas' _normalise_json_ordered: the top-level scalars first, in place,
\* then the flattened nested objects.
normalise_json_ordered(data) ==
    LET top_dict == SelectSeq(data, LAMBDA kv : ~IsObj(kv[2]))
        nested == SelectSeq(data, LAMBDA kv : IsObj(kv[2]))
    IN  DictUpdate(top_dict, normalise_json(nested, <<>>, <<>>))

\* The columns of DataFrame(list of dicts): the keys in the order they first
\* appear, row after row.
RECURSIVE ColumnsOf(_, _)
ColumnsOf(records, cols) ==
    IF records = <<>> THEN cols
    ELSE LET rec == records[1]
             fresh == SelectSeq([k \in 1..Len(rec) |-> rec[k][1]],
                                LAMBDA c : c \notin Range(cols))
         IN  ColumnsOf(Tail(records), cols \o fresh)

\* DataFrame(records): a cell is the row's value, NaN where the row has no
\* such key.
DataFrame(records) ==
    LET cols == ColumnsOf(records, <<>>)
    IN  [columns |-> cols,
         n |-> Len(records),
         data |-> [c \in Range(cols) |->
                     [r \in 1..Len(records) |->
                        IF c \in DictKeys(records[r])
                        THEN DictGet(records[r], c) ELSE Null]]]

\* pd.json_normalize(payload): an empty list gives DataFrame(); one object is
\* a list of one; every object is flattened.
json_normalize(doc) ==
    LET data == IF doc[1] = "object" THEN <<doc[2]>> ELSE doc[2]
    IN  DataFrame([r \in 1..Len(data) |-> normalise_json_ordered(data[r])])

----------------------------------------------------------------------------
(* detect_date_column, lines 79-83. *)

\* str.lower(), on the letters the model's names use.
LowerChar(c) ==
    CASE c = "D" -> "d"
      [] c = "T" -> "t"
      [] c = "V" -> "v"
      [] OTHER -> c
lower(col) == [k \in 1..Len(col) |-> LowerChar(col[k])]

\* sub in s
Contains(s, sub) ==
    \E k \in 1..(Len(s) - Len(sub) + 1) : SubSeq(s, k, k + Len(sub) - 1) = sub
\* s.endswith(suffix)
EndsWith(s, suffix) ==
    /\ Len(s) >= Len(suffix)
    /\ SubSeq(s, Len(s) - Len(suffix) + 1, Len(s)) = suffix

\* The condition of line 81.
IsDateName(col) ==
    \/ Contains(lower(col), <<"d","a","t","e">>)
    \/ EndsWith(lower(col), <<"d","t">>)

\* Python's None; no column has the empty name.
None == <<>>

\* The loop of lines 80-83 from position k on.
RECURSIVE DetectFrom(_, _)
DetectFrom(columns, k) ==
    IF k > Len(columns) THEN None
    ELSE IF IsDateName(columns[k]) THEN columns[k]
    ELSE DetectFrom(columns, k + 1)

\* A detector that lets a later matching column win.
detect_last_date_column(frame) ==
    LET matching == {k \in 1..Len(frame.columns) : IsDateName(frame.columns[k])}
    IN  IF matching = {} THEN None
        ELSE frame.columns[CHOOSE k \in matching : \A j \in matching : j <= k]

detect_date_column(frame) == DetectFrom(frame.columns, 1)

----------------------------------------------------------------------------
(* render_dataset, lines 86-134. *)

\* The rows of df.head(50), line 134.
HeadRows == 50

\* A column has a number dtype when every cell is a number or NaN and one
\* at least is a number: a text cell makes it an object column.
IsNumberColumn(frame, c) ==
    /\ \A r \in 1..frame.n : frame.data[c][r][1] \in {"num", "null"}
    /\ \E r \in 1..frame.n : frame.data[c][r][1] = "num"

\* df.select_dtypes(include="number").columns.tolist(), line 91.
select_number_columns(frame) ==
    SelectSeq(frame.columns, LAMBDA c : IsNumberColumn(frame, c))

\* pd.to_datetime(cell, errors="coerce"): a parseable text and a number
\* become timestamps, anything else NaT.
to_datetime(cell) ==
    CASE cell[1] = "text" /\ cell[2] \in DateTexts -> <<"time", cell[2]>>
      [] cell[1] = "num" -> <<"time_ns", cell[2]>>
      [] cell[1] \in {"time", "time_ns"} -> cell
      [] OTHER -> Null

\* df[date_col] = pd.to_datetime(df[date_col], errors="coerce"), line 94.
convert_date_column(frame, date_col) ==
    [frame EXCEPT !.data[date_col] =
        [r \in 1..frame.n |-> to_datetime(frame.data[date_col][r])]]

\* len(df.dropna(subset=cols)): the rows with no NaN/NaT in those columns.
dropna_count(frame, cols) ==
    Cardinality({r \in 1..frame.n : \A c \in cols : frame.data[c][r] # Null})

RECURSIVE SumCells(_)
SumCells(cells) ==
    IF cells = <<>> THEN 0
    ELSE (IF cells[1][1] = "num" THEN cells[1][2] ELSE 0) + SumCells(Tail(cells))

\* A describe that counts a NaN cell as a zero.
describe_nan_as_zero(frame, numeric_cols) ==
    LET shown == {c \in Range(numeric_cols) : IsNumberColumn(frame, c)}
    IN  [c \in shown |->
            [count |-> frame.n, mean |-> <<SumCells(frame.data[c]), frame.n>>]]

\* df[numeric_cols].describe().T, line 131: a row per column that still
\* has a number dtype, NaN cells left out of count and mean.  The mean is
\* the fraction <<sum, count>>.  (The row of a column that line 94 turned
\* into timestamps depends on the pandas version and is not modelled.)
describe(frame, numeric_cols) ==
    LET shown == {c \in Range(numeric_cols) : IsNumberColumn(frame, c)}
    IN  [c \in shown |->
            LET cnt == Cardinality({r \in 1..frame.n : frame.data[c][r][1] = "num"})
            IN  [count |-> cnt, mean |-> <<SumCells(frame.data[c]), cnt>>]]

NoStats == [c \in {} |-> 0]

\* The key of the selectbox of lines 96-100 (f"metric_{name}") or of lines
\* 116-120 (f"dist_{name}").
widget_key(date_col, name) ==
    <<IF date_col # None THEN "metric_" ELSE "dist_", name>>

\* A chart selection that tests numeric_cols first and draws the histogram
\* whether or not there is a date column.
select_chart_numeric_first(frame, date_col, numeric_cols, metric) ==
    IF numeric_cols # <<>>
    THEN <<[kind |-> "histogram", x |-> metric, y |-> <<"count()">>,
            points |-> dropna_count(frame, {metric})]>>
    ELSE <<>>

\* The chart of lines 93-127: the branch on date_col, then on numeric_cols.
select_chart(frame, date_col, numeric_cols, metric) ==
    IF date_col # None
    THEN IF numeric_cols # <<>>
         THEN <<[kind |-> "line", x |-> date_col, y |-> metric,
                 points |-> dropna_count(frame, {date_col, metric})]>>
         ELSE <<>>
    ELSE IF numeric_cols # <<>>
         THEN <<[kind |-> "histogram", x |-> metric, y |-> <<"count()">>,
                 points |-> dropna_count(frame, {metric})]>>
         ELSE <<>>

\* The st.info of line 113.
select_info(date_col, numeric_cols) ==
    IF date_col # None /\ numeric_cols = <<>> THEN 1 ELSE 0

\* render_dataset(name, df) in a run that has registered the widget keys
\* `registered`, the user's selectbox choice being `metric`.  Streamlit
\* raises DuplicateWidgetID from st.selectbox when the key is registered
\* already; the exception leaves render_dataset at that line, after the
\* assignment of line 94 and before any chart.
render_dataset(name, frame, metric, registered) ==
    LET date_col == detect_date_column(frame)
        numeric_cols == select_number_columns(frame)
        frame2 == IF date_col # None THEN convert_date_column(frame, date_col)
                  ELSE frame
        key == widget_key(date_col, name)
    IN  IF numeric_cols # <<>> /\ key \in registered
        THEN [raised |-> TRUE, df |-> frame2, charts |-> <<>>, info |-> 0,
              stats |-> NoStats, preview |-> 0, keys |-> registered]
        ELSE [raised |-> FALSE,
              df |-> frame2,
              charts |-> select_chart(frame2, date_col, numeric_cols, metric),
              info |-> select_info(date_col, numeric_cols),
              stats |-> IF numeric_cols # <<>> THEN describe(frame2, numeric_cols)
                        ELSE NoStats,
              preview |-> Min(HeadRows, frame2.n),
              keys |-> IF numeric_cols # <<>> THEN registered \cup {key}
                       ELSE registered]

\* What the selectbox offers: numeric_cols, or nothing to choose.
metric_choices(frame) ==
    IF select_number_columns(frame) = <<>> THEN {None}
    ELSE Range(select_number_columns(frame))

----------------------------------------------------------------------------
(* The script run: state before the first run. *)

\* The catalog, lines 12-55, cut to its first two datasets, and what a user
\* can type into the two text fields of lines 149-150.
CATEGORIES == << <<"exchange", "url_exchange">>, <<"discount", "url_discount">> >>
\* <<custom_name, custom_url>>: nothing typed, a URL alone, or the name and
\* the URL of a catalog dataset.
CustomInputs == {<<"", "">>, <<"", "url_custom">>, <<"exchange", "url_exchange">>}
URLS == {CATEGORIES[k][2] : k \in 1..Len(CATEGORIES)}
            \cup ({c[2] : c \in CustomInputs} \ {""})

EmptyFrame == DataFrame(<<>>)
NoEntry == [stored |-> -1, df |-> EmptyFrame, fetched_at |-> -1]
NoRet == [url |-> "", kind |-> "none", raised |-> FALSE, df |-> EmptyFrame,
          fetched_at |-> -1]
NoOut == [raised |-> FALSE, charts |-> <<>>, info |-> 0, stats |-> NoStats,
          preview |-> 0]

RunInit ==
    /\ now = 0
    /\ cache = [u \in URLS |-> NoEntry]
    /\ pc = "idle"
    /\ selected_urls = <<>>
    /\ i = 1
    /\ summary_rows = <<>>
    /\ errors = <<>>
    /\ keys = {}
    /\ ret = NoRet
    /\ lastNet = [u \in URLS |-> NoEntry]
    /\ requests = [u \in URLS |-> 0]
    /\ failed = {}
    /\ log = <<>>

----------------------------------------------------------------------------
(* The table pipeline on its own: a decoded document is normalized as in   *)
(* fetch_data line 75 and the table is rendered by one render_dataset call *)
(* in a run that has registered no widget key yet.                         *)

TableInit ==
    /\ tpc = "payload"
    /\ payload \in Payloads
    /\ df = EmptyFrame
    /\ out = NoOut
    /\ RunInit

\* df = pd.json_normalize(payload), line 75.
Normalize ==
    /\ tpc = "payload"
    /\ df' = json_normalize(payload)
    /\ tpc' = "table"
    /\ UNCHANGED <<payload, out>>
    /\ UNCHANGED rvars

\* render_dataset(name, df), lines 86-134; df is the caller's table, which
\* line 94 assigns into.
Render ==
    /\ tpc = "table"
    /\ \E metric \in metric_choices(df) :
          LET r == render_dataset("dataset", df, metric, {})
          IN  /\ df' = r.df
              /\ out' = [raised |-> r.raised, charts |-> r.charts,
                         info |-> r.info, stats |-> r.stats,
                         preview |-> r.preview]
    /\ tpc' = "rendered"
    /\ UNCHANGED payload
    /\ UNCHANGED rvars

TableNext == Normalize \/ Render

SpecTable == TableInit /\ [][TableNext]_vars

----------------------------------------------------------------------------
(* fetch_data, lines 66-76, behind @st.cache_data(ttl=900). *)

\* ttl=900, line 66.
TTL == 900

\* The clock moves in steps of half the TTL, up to MaxTime.
TickStep == TTL \div 2

\* The documents a feed answers with in a run.
RunDocs == {<<"array", <<rowDated, rowBadDate>>>>, <<"array", <<rowTextValue>>>>}

\* datetime.utcnow().strftime("%Y-%m-%d %H:%M UTC"), line 76: the minute.
utcnow_strftime(t) == t \div 60

\* st.cache_data's lookup: an entry is served while it is younger than ttl.
CacheValid(url) == cache[url].stored >= 0 /\ now - cache[url].stored < TTL

\* A cache with no ttl: an entry is served however old it is.
fetch_data_no_ttl(url, ok, doc) ==
    IF cache[url].stored >= 0
    THEN [kind |-> "hit", raised |-> FALSE, df |-> cache[url].df,
          fetched_at |-> cache[url].fetched_at, net |-> 0, entry |-> cache[url]]
    ELSE IF ok
    THEN [kind |-> "miss", raised |-> FALSE, df |-> json_normalize(doc),
          fetched_at |-> utcnow_strftime(now), net |-> 1,
          entry |-> [stored |-> now, df |-> json_normalize(doc),
                     fetched_at |-> utcnow_strftime(now)]]
    ELSE [kind |-> "miss", raised |-> TRUE, df |-> EmptyFrame,
          fetched_at |-> -1, net |-> 1, entry |-> cache[url]]

\* One call fetch_data(url).  `ok` is whether the request, raise_for_status,
\* both JSON decodings and json_normalize go through (an exception leaves
\* the function and nothing is cached), `doc` the decoded document.  `net`
\* counts the requests issued, `entry` is the URL's cache entry afterwards.
fetch_data(url, ok, doc) ==
    IF CacheValid(url)
    THEN [kind |-> "hit", raised |-> FALSE, df |-> cache[url].df,
          fetched_at |-> cache[url].fetched_at, net |-> 0, entry |-> cache[url]]
    ELSE LET kind == IF cache[url].stored >= 0 THEN "expired" ELSE "miss"
             frame == json_normalize(doc)
             stamp == utcnow_strftime(now)
         IN  IF ok
             THEN [kind |-> kind, raised |-> FALSE, df |-> frame,
                   fetched_at |-> stamp, net |-> 1,
                   entry |-> [stored |-> now, df |-> frame, fetched_at |-> stamp]]
             ELSE [kind |-> kind, raised |-> TRUE, df |-> EmptyFrame,
                   fetched_at |-> -1, net |-> 1, entry |-> cache[url]]

----------------------------------------------------------------------------
(* The script body, lines 137-190. *)

\* The sidebar, lines 137-152: the checked catalog datasets in catalog
\* order, then the custom dataset when a URL is typed.
RECURSIVE Checked(_, _)
Checked(checked, k) ==
    IF k > Len(CATEGORIES) THEN <<>>
    ELSE (IF k \in checked THEN <<CATEGORIES[k]>> ELSE <<>>) \o Checked(checked, k + 1)

sidebar(checked, custom_name, custom_url) ==
    Checked(checked, 1) \o
        (IF custom_url # ""
         THEN << <<IF custom_name # "" THEN custom_name ELSE "Custom dataset",
                   custom_url>> >>
         ELSE <<>>)

\* A summary loop with no except clause: the exception ends the run.
summary_reraise(raised) == IF raised THEN "aborted" ELSE "summary"

\* The except clause of lines 165-167: st.error, then continue.
summary_except(raised) == "summary"

\* The except clause of lines 188-189: continue.
analytics_except(raised) == "analytics"

Event(loop, k, fetched, what) ==
    [loop |-> loop, idx |-> k, name |-> selected_urls[k][1], fetched |-> fetched,
     what |-> what]

\* What a fetch_data call leaves behind, in both loops.
Fetched(url, r) ==
    /\ cache' = [cache EXCEPT ![url] = r.entry]
    /\ requests' = [requests EXCEPT ![url] = @ + r.net]
    /\ failed' = IF r.raised THEN failed \cup {url} ELSE failed
    /\ lastNet' = IF r.net = 1 /\ ~r.raised THEN [lastNet EXCEPT ![url] = r.entry]
                  ELSE lastNet
    /\ ret' = [url |-> url, kind |-> r.kind, raised |-> r.raised, df |-> r.df,
               fetched_at |-> r.fetched_at]

\* A script run starts (any interaction reruns the script); with nothing
\* selected it stops at line 157.
StartRun ==
    /\ pc \in {"idle", "done", "aborted"}
    /\ \E checked \in SUBSET (1..Len(CATEGORIES)), custom \in CustomInputs :
          /\ selected_urls' = sidebar(checked, custom[1], custom[2])
          /\ pc' = IF selected_urls' = <<>> THEN "done" ELSE "summary"
    /\ i' = 1
    /\ summary_rows' = <<>>
    /\ errors' = <<>>
    /\ keys' = {}
    /\ ret' = NoRet
    /\ requests' = [u \in URLS |-> 0]
    /\ failed' = {}
    /\ log' = <<>>
    /\ UNCHANGED <<now, cache, lastNet>>
    /\ UNCHANGED tvars

\* One pass of the summary loop, lines 161-177.
SummaryStep ==
    /\ pc = "summary"
    /\ i <= Len(selected_urls)
    /\ \E ok \in BOOLEAN, doc \in RunDocs :
          LET name == selected_urls[i][1]
              url == selected_urls[i][2]
              r == fetch_data(url, ok, doc)
          IN  /\ Fetched(url, r)
              /\ IF r.raised
                 THEN /\ errors' = Append(errors, name)
                      /\ summary_rows' = summary_rows
                      /\ log' = Append(log, Event("summary", i, FALSE, "error"))
                      /\ pc' = summary_except(TRUE)
                 ELSE /\ errors' = errors
                      /\ summary_rows' = Append(summary_rows,
                             [name |-> name, url |-> url, records |-> r.df.n,
                              fields |-> Len(r.df.columns),
                              fetched_at |-> r.fetched_at])
                      /\ log' = Append(log, Event("summary", i, TRUE, "row"))
                      /\ pc' = "summary"
    /\ i' = i + 1
    /\ UNCHANGED <<now, selected_urls, keys>>
    /\ UNCHANGED tvars

\* The summary table is shown, lines 179-182, and the analytics loop starts.
SummaryDone ==
    /\ pc = "summary"
    /\ i > Len(selected_urls)
    /\ pc' = "analytics"
    /\ i' = 1
    /\ UNCHANGED <<now, cache, selected_urls, summary_rows, errors, keys, ret,
                   lastNet, requests, failed, log>>
    /\ UNCHANGED tvars

\* One pass of the analytics loop, lines 184-190.  render_dataset is called
\* outside the try: what it raises ends the run.
AnalyticsStep ==
    /\ pc = "analytics"
    /\ i <= Len(selected_urls)
    /\ \E ok \in BOOLEAN, doc \in RunDocs :
          LET name == selected_urls[i][1]
              url == selected_urls[i][2]
              r == fetch_data(url, ok, doc)
          IN  /\ Fetched(url, r)
              /\ IF r.raised
                 THEN /\ log' = Append(log, Event("analytics", i, FALSE, "skipped"))
                      /\ pc' = analytics_except(TRUE)
                      /\ UNCHANGED <<keys, df, out>>
                 ELSE \E metric \in metric_choices(r.df) :
                        LET shown == render_dataset(name, r.df, metric, keys)
                        IN  /\ keys' = shown.keys
                            /\ df' = shown.df
                            /\ out' = [raised |-> shown.raised,
                                       charts |-> shown.charts,
                                       info |-> shown.info,
                                       stats |-> shown.stats,
                                       preview |-> shown.preview]
                            /\ log' = Append(log, Event("analytics", i, TRUE,
                                   IF shown.raised THEN "render_error" ELSE "render"))
                            /\ pc' = IF shown.raised THEN "aborted" ELSE "analytics"
    /\ i' = i + 1
    /\ UNCHANGED <<now, selected_urls, summary_rows, errors>>
    /\ UNCHANGED <<tpc, payload>>

\* The script reaches its end.
AnalyticsDone ==
    /\ pc = "analytics"
    /\ i > Len(selected_urls)
    /\ pc' = "done"
    /\ UNCHANGED <<now, cache, selected_urls, i, summary_rows, errors, keys, ret,
                   lastNet, requests, failed, log>>
    /\ UNCHANGED tvars

\* Time passes, at any point of a run or between runs.
Tick ==
    /\ now + TickStep <= MaxTime
    /\ now' = now + TickStep
    /\ UNCHANGED <<cache, pc, selected_urls, i, summary_rows, errors, keys, ret,
                   lastNet, requests, failed, log>>
    /\ UNCHANGED tvars

Init ==
    /\ tpc = "run"
    /\ payload = <<"array", <<>>>>
    /\ df = EmptyFrame
    /\ out = NoOut
    /\ RunInit

Next ==
    \/ StartRun
    \/ SummaryStep
    \/ SummaryDone
    \/ AnalyticsStep
    \/ AnalyticsDone
    \/ Tick

Spec == Init /\ [][Next]_vars

----------------------------------------------------------------------------
(* Properties of the script run (specification Spec). *)

\* The step is a fetch_data(u) call of one of the two loops.
CallsFetch(u) ==
    /\ pc \in {"summary", "analytics"}
    /\ i <= Len(selected_urls)
    /\ selected_urls[i][2] = u
    /\ i' = i + 1

\* C1: a fetch_data(u) call made less than TTL after the last successful
\* network fetch of u issues no request and returns that fetch's table and
\* fetched-at stamp; a call made once the TTL has run out issues exactly one
\* request and, when it succeeds, its result becomes u's cache entry; the
\* entries and request counts of the other URLs are untouched.
C1_CacheContract ==
    [][\A u \in URLS :
         CallsFetch(u) =>
            /\ (lastNet[u].stored >= 0 /\ now - lastNet[u].stored < TTL) =>
                  /\ requests'[u] = requests[u]
                  /\ ~ret'.raised
                  /\ ret'.df = lastNet[u].df
                  /\ ret'.fetched_at = lastNet[u].fetched_at
                  /\ cache' = cache
            /\ (lastNet[u].stored >= 0 /\ now - lastNet[u].stored >= TTL) =>
                  /\ requests'[u] = requests[u] + 1
                  /\ ~ret'.raised =>
                        cache'[u] = [stored |-> now, df |-> ret'.df,
                                     fetched_at |-> ret'.fetched_at]
            /\ \A w \in URLS \ {u} :
                  cache'[w] = cache[w] /\ requests'[w] = requests[w]
      ]_vars

\* C1's case: the entry of a URL had expired, the call fetched it again from
\* the network and the result is the URL's entry now, while another URL
\* keeps an entry of its own.
C1_Witness ==
    /\ ret.kind = "expired"
    /\ ~ret.raised
    /\ requests[ret.url] = 1
    /\ cache[ret.url] = [stored |-> now, df |-> ret.df, fetched_at |-> ret.fetched_at]
    /\ \E u \in URLS \ {ret.url} : cache[u].stored >= 0

Events(loop) == {k \in 1..Len(log) : log[k].loop = loop}
Visited(loop) == {log[k].idx : k \in Events(loop)}
EventOf(loop, d) == log[CHOOSE k \in Events(loop) : log[k].idx = d]
HasRow(d) ==
    \E k \in 1..Len(summary_rows) :
        /\ summary_rows[k].name = selected_urls[d][1]
        /\ summary_rows[k].url = selected_urls[d][2]

\* C2: a failed fetch of one dataset does not abort the others.  When the
\* summary loop is over it has visited every selected dataset, and every
\* dataset whose fetch succeeded there has a summary row; when the run is
\* over the analytics loop has visited every selected dataset too, and every
\* dataset whose fetch succeeded there was passed to render_dataset.
C2_Isolation ==
    /\ pc \in {"analytics", "done", "aborted"} /\ selected_urls # <<>> =>
          /\ Visited("summary") = 1..Len(selected_urls)
          /\ \A d \in 1..Len(selected_urls) :
                EventOf("summary", d).fetched => HasRow(d)
          /\ Cardinality({d \in 1..Len(selected_urls) : EventOf("summary", d).fetched})
                = Len(summary_rows)
    /\ pc \in {"done", "aborted"} /\ selected_urls # <<>> =>
          /\ Visited("analytics") = 1..Len(selected_urls)
          /\ \A d \in 1..Len(selected_urls) :
                EventOf("analytics", d).fetched =>
                    EventOf("analytics", d).what \in {"render", "render_error"}

\* C2's case: a run of three datasets is over; the fetch of the second
\* failed in both loops, the first and the third were summarized and
\* rendered.
C2_Witness ==
    /\ pc = "done"
    /\ Len(selected_urls) = 3
    /\ ~EventOf("summary", 2).fetched /\ ~EventOf("analytics", 2).fetched
    /\ \A d \in {1, 3} :
          EventOf("summary", d).what = "row" /\ EventOf("analytics", d).what = "render"

\* C3: every error raised while a dataset is processed (by fetch_data in
\* either loop, or inside render_dataset) is caught, an error message with
\* the dataset's name is emitted, and the run goes on.
C3_EveryErrorCaughtAndNamed ==
    /\ pc # "aborted"
    /\ \A k \in 1..Len(log) :
          log[k].what \in {"error", "skipped", "render_error"} =>
              log[k].name \in Range(errors)

\* C4: once a network fetch of a URL has failed in a run, no further
\* request is issued for that URL in the run.
C4_NoRetry == [][\A u \in failed : requests'[u] <= requests[u]]_vars

\* C10: at the end of a run the datasets with a summary row are the datasets
\* render_dataset rendered.
C10_SummaryEqualsRendered ==
    pc = "done" /\ selected_urls # <<>> =>
        {d \in 1..Len(selected_urls) : EventOf("summary", d).what = "row"}
            = {d \in 1..Len(selected_urls) : EventOf("analytics", d).what = "render"}

----------------------------------------------------------------------------
(* Properties of the table pipeline (specification SpecTable). *)

DateColumns(frame) == {k \in 1..Len(frame.columns) : IsDateName(frame.columns[k])}
NumberColumns(frame) == {c \in Range(frame.columns) : IsNumberColumn(frame, c)}

\* The decision tree of C5 for the table `frame` and the output `shown`.
C5_Tree(frame, shown) ==
    LET dates == DateColumns(frame)
        numbers == NumberColumns(frame)
    IN  /\ dates # {} /\ numbers # {} =>
              /\ Len(shown.charts) = 1
              /\ shown.charts[1].kind = "line"
              /\ \E k \in dates : shown.charts[1].x = frame.columns[k]
              /\ shown.charts[1].y \in numbers
        /\ dates # {} /\ numbers = {} =>
              shown.charts = <<>> /\ shown.info = 1
        /\ dates = {} /\ numbers # {} =>
              /\ Len(shown.charts) = 1
              /\ shown.charts[1].kind = "histogram"
              /\ shown.charts[1].x \in numbers
              /\ shown.charts[1].y = <<"count()">>
        /\ dates = {} /\ numbers = {} =>
              shown.charts = <<>> /\ shown.info = 0

C6_FirstDateColumn ==
    tpc # "payload" =>
        LET matching == DateColumns(df)
            found == detect_date_column(df)
        IN  /\ (found = None) <=> (matching = {})
            /\ matching # {} =>
                  \E k \in matching :
                      /\ found = df.columns[k]
                      /\ \A j \in matching : k <= j
            /\ \A k \in 1..Len(out.charts) :
                  out.charts[k].kind = "line" =>
                      out.charts[k].x = df.columns[CHOOSE m \in matching :
                                                      \A j \in matching : m <= j]
            /\ df.columns = <<kStartDate, kEndDate, kValue>> => found = kStartDate
            /\ \A k \in 1..Len(df.columns) :
                  k \in matching <=>
                      df.columns[k] \in {kStartDate, kEndDate, kValidDT,
                                         kA \o <<".">> \o kDt}

\* C6's case: the table has the columns start_date, end_date, value, two of
\* them matching, and the line chart was drawn over start_date.
C6_Witness ==
    /\ tpc = "rendered"
    /\ df.columns = <<kStartDate, kEndDate, kValue>>
    /\ Len(out.charts) = 1
    /\ out.charts[1].x = kStartDate

\* C7: after render_dataset(name, df) has returned, every column of df holds
\* the cell values, of the same kinds, that it held before the call.
C7_TableNotMutated ==
    tpc = "rendered" /\ ~out.raised => df = json_normalize(payload)

RECURSIVE LeafPaths(_, _)
\* The dotted paths to the values of an object that are not objects.
LeafPaths(object, prefix) ==
    UNION {IF IsObj(object[k][2])
           THEN LeafPaths(object[k][2][2], NewKey(prefix, object[k][1]))
           ELSE {NewKey(prefix, object[k][1])} : k \in 1..Len(object)}

TopLevelKeys(object) == {object[k][1] : k \in 1..Len(object)}

\* The value an object holds at a dotted path.
RECURSIVE LeafAt(_, _, _)
LeafAt(object, prefix, path) ==
    LET k == CHOOSE k \in 1..Len(object) :
                 \/ ~IsObj(object[k][2]) /\ NewKey(prefix, object[k][1]) = path
                 \/ /\ IsObj(object[k][2])
                    /\ path \in LeafPaths(object[k][2][2], NewKey(prefix, object[k][1]))
    IN  IF IsObj(object[k][2])
        THEN LeafAt(object[k][2][2], NewKey(prefix, object[k][1]), path)
        ELSE object[k][2]

\* C8 as stated: for a JSON array of objects the table has as many rows as
\* the array has objects and its column names are the union of the
\* top-level keys of the objects, with null where a row lacks the key; the
\* empty array gives zero rows and zero columns.
C8_ColumnsAreTopLevelKeys ==
    tpc = "table" /\ payload[1] = "array" =>
        LET rows == payload[2]
        IN  /\ df.n = Len(rows)
            /\ Range(df.columns) = UNION {TopLevelKeys(rows[r]) : r \in 1..Len(rows)}
            /\ rows = <<>> => df.n = 0 /\ df.columns = <<>>

\* C8, amended: the table has as many rows as the array has objects; its
\* column names, each once, are the union over the objects of the dotted
\* paths to their values that are not objects (the top-level keys where no
\* value is an object); a cell holds the row's value at the path and null
\* where the row has no such path; the empty array gives zero rows and zero
\* columns.
C8_ColumnsAreLeafPaths ==
    tpc = "table" /\ payload[1] = "array" =>
        LET rows == payload[2]
        IN  /\ df.n = Len(rows)
            /\ Range(df.columns) = UNION {LeafPaths(rows[r], <<>>) : r \in 1..Len(rows)}
            /\ Cardinality(Range(df.columns)) = Len(df.columns)
            /\ \A c \in Range(df.columns) : \A r \in 1..Len(rows) :
                  df.data[c][r] = IF c \in LeafPaths(rows[r], <<>>)
                                  THEN LeafAt(rows[r], <<>>, c) ELSE Null
            /\ (\A r \in 1..Len(rows) : \A k \in 1..Len(rows[r]) : ~IsObj(rows[r][k][2]))
                  => Range(df.columns)
                        = UNION {TopLevelKeys(rows[r]) : r \in 1..Len(rows)}
            /\ rows = <<>> => df.n = 0 /\ df.columns = <<>>

\* C8's case: an array with a nested object and a flat object was
\* normalized; the nested fields are the columns a.dt and a.b, and the flat
\* row holds null there.
C8_Witness ==
    /\ tpc = "table"
    /\ payload = <<"array", <<rowNested, rowNumberDate>>>>
    /\ df.columns = <<kRate, kA \o <<".">> \o kDt, kA \o <<".">> \o kB, kValidDT>>
    /\ df.data[kA \o <<".">> \o kB] = <<Num(1), Null>>

\* The cells of a column of the table fetch_data returned.
Cells(c) == json_normalize(payload).data[c]
NumberCells(c) == {r \in 1..Len(Cells(c)) : Cells(c)[r][1] = "num"}
IsMixedColumn(c) ==
    /\ NumberCells(c) # {}
    /\ \E r \in 1..Len(Cells(c)) : Cells(c)[r][1] = "text"

\* The statistics row of column c counts the numeric cells and averages them.
StatsOfNumberCells(c) ==
    /\ c \in DOMAIN out.stats
    /\ out.stats[c].count = Cardinality(NumberCells(c))
    /\ out.stats[c].mean[1] = SumCells(Cells(c))
    /\ out.stats[c].mean[2] = Cardinality(NumberCells(c))

====
